---- MODULE Spec2Model ----
(***************************************************************************)
(* Model of the VitalCare global ranking client (ranking.js): the /players *)
(* node of the Realtime Database, the listeners attached by listenRanking, *)
(* the snapshot handler that deduplicates the raw records into the ranking *)
(* projection, the error handler, and the window._lastRanking cache; the   *)
(* steps of addPlayer behind ensureAuth; and the cleanup script            *)
(* (scripts/cleanup_ranking.js) that rewrites /players.                    *)
(***************************************************************************)
EXTENDS Integers, Sequences, FiniteSets, TLC

VARIABLES
  store,        \* the children of /players, in Object.entries order
  listeners,    \* the onValue registrations made by listenRanking, in order
  queue,        \* events raised by the database and not yet dispatched
  log,          \* every run of a handler: what the callback was handed
  lastRanking,  \* window._lastRanking
  version,      \* number of completed writes to /players
  keys,         \* the keys of the children of /players, parallel to store
  currentUser,  \* auth.currentUser is set
  authReady,    \* the module's authReady flag
  calls,        \* the calls of addPlayer made so far, each with its position
  appended,     \* every push that completed: its key, record and call
  comp          \* the cleanup script's run(apply)

submitVars == <<currentUser, authReady, calls, appended>>

vars == <<store, listeners, queue, log, lastRanking, version, keys,
          currentUser, authReady, calls, appended, comp>>

(***************************************************************************)
(* Bounds of the model.                                                    *)
(***************************************************************************)
MaxData == 3        \* records in a snapshot of the projection-building runs
MaxWrites == 2      \* addPlayer writes in the listener protocol runs
MaxObservers == 2   \* listenRanking calls in the listener protocol runs
MaxCalls == 2       \* addPlayer calls in the submission runs
MaxRaw == 3         \* raw records in /players when the cleanup script starts
MaxRuns == 2        \* runs of the cleanup script

(***************************************************************************)
(* JavaScript values.  A value carries its type tag; a string is the       *)
(* sequence of its characters (one-character strings).                     *)
(***************************************************************************)
Undefined == [t |-> "undefined", n |-> 0, s |-> <<>>]
Null == [t |-> "null", n |-> 0, s |-> <<>>]
NaN == [t |-> "NaN", n |-> 0, s |-> <<>>]
Num(n) == [t |-> "number", n |-> n, s |-> <<>>]
Str(s) == [t |-> "string", n |-> 0, s |-> s]

\* ToBoolean: undefined, null, NaN, 0 and "" are falsy.
Truthy(v) ==
  CASE v.t = "string" -> v.s # <<>>
    [] v.t = "number" -> v.n # 0
    [] OTHER -> FALSE

\* a || b
Or(a, b) == IF Truthy(a) THEN a ELSE b

IsSpace(c) == c = " "

Digits == <<"0", "1", "2", "3", "4", "5", "6", "7", "8", "9">>
IsDigit(c) == \E i \in 1..10 : Digits[i] = c
DigitValue(c) == (CHOOSE i \in 1..10 : Digits[i] = c) - 1

\* String.prototype.trim
RECURSIVE TrimStart(_)
TrimStart(s) ==
  IF s # <<>> /\ IsSpace(Head(s)) THEN TrimStart(Tail(s)) ELSE s

RECURSIVE TrimEnd(_)
TrimEnd(s) ==
  IF s # <<>> /\ IsSpace(s[Len(s)]) THEN TrimEnd(SubSeq(s, 1, Len(s) - 1)) ELSE s

Trim(s) == TrimEnd(TrimStart(s))

\* String.prototype.toLowerCase
ToLowerChar(c) ==
  CASE c = "A" -> "a"
    [] c = "B" -> "b"
    [] c = "X" -> "x"
    [] OTHER -> c

ToLowerCase(s) == [i \in 1..Len(s) |-> ToLowerChar(s[i])]

RECURSIVE DecimalValue(_)
DecimalValue(s) ==
  IF s = <<>> THEN 0
  ELSE 10 * DecimalValue(SubSeq(s, 1, Len(s) - 1)) + DigitValue(s[Len(s)])

\* Number(string): blank is 0, a decimal literal is its value, anything else NaN.
StringToNumber(s) ==
  LET t == Trim(s) IN
  IF t = <<>> THEN Num(0)
  ELSE IF \A i \in 1..Len(t) : IsDigit(t[i]) THEN Num(DecimalValue(t))
  ELSE NaN

\* Number(v)
ToNumber(v) ==
  CASE v.t = "number" -> v
    [] v.t = "string" -> StringToNumber(v.s)
    [] v.t = "null" -> Num(0)
    [] OTHER -> NaN

\* a > b on numbers: false as soon as one side is NaN.
JsGt(a, b) == a.t = "number" /\ b.t = "number" /\ a.n > b.n

\* a - b on numbers
JsSub(a, b) == IF a.t = "number" /\ b.t = "number" THEN Num(a.n - b.n) ELSE NaN

(***************************************************************************)
(* Raw records of /players.                                                *)
(***************************************************************************)
\* origKey: the _origKey field the cleanup script adds to the records it keeps
Entry(name, score, id) ==
  [name |-> name, score |-> score, id |-> id, key |-> Undefined,
   prize |-> Undefined, timestamp |-> Undefined, origKey |-> Undefined]

(***************************************************************************)
(* Keys of the children of /players: the keys push generates sort in the   *)
(* order of the pushes; a key that is an integer sorts before every other  *)
(* key; 'clean_<idx>_<time>' sorts after the push keys ('-' < 'c').        *)
(***************************************************************************)
PushKey(n) == [c |-> "push", n |-> n]
IntKey(n) == [c |-> "int", n |-> n]
CleanKey(idx) == [c |-> "clean", n |-> idx]

KeyClass(k) == CASE k.c = "int" -> 0 [] k.c = "push" -> 1 [] OTHER -> 2

KeyLess(a, b) ==
  \/ KeyClass(a) < KeyClass(b)
  \/ KeyClass(a) = KeyClass(b) /\ a.n < b.n

\* the children of a node, as [key, entry] pairs in key order, after child
\* [key, entry] is put: an existing child of that key is replaced
RECURSIVE PutChild(_, _)
PutChild(children, child) ==
  IF children = <<>> THEN <<child>>
  ELSE IF Head(children).key = child.key THEN <<child>> \o Tail(children)
  ELSE IF KeyLess(child.key, Head(children).key) THEN <<child>> \o children
  ELSE <<Head(children)>> \o PutChild(Tail(children), child)

Child(key, entry) == [key |-> key, entry |-> entry]

\* Object.entries of the node
Children(s, ks) == [i \in 1..Len(s) |-> Child(ks[i], s[i])]

EntriesOfChildren(children) == [i \in 1..Len(children) |-> children[i].entry]
KeysOfChildren(children) == [i \in 1..Len(children) |-> children[i].key]

\* 'Anônimo'
Sentinel == <<"A", "n", "ô", "n", "i", "m", "o">>

\* Number(entry.score || 0)
ScoreOf(entry) == ToNumber(Or(entry.score, Num(0)))

\* (entry.name || 'Anônimo'): the value .trim() is called on
NameOrSentinel(entry) == Or(entry.name, Str(Sentinel))

\* .trim() of a value that is not a string is a TypeError
TrimThrows(entry) == NameOrSentinel(entry).t # "string"

\* const rawName = (entry.name || 'Anônimo').trim()
rawNameOf(entry) == Trim(NameOrSentinel(entry).s)

NameKeyNoFold(rawName) == rawName

\* const nameKey = rawName.toLowerCase()
nameKeyOf(rawName) == ToLowerCase(rawName)

(***************************************************************************)
(* The snapshot handler of listenRanking: bestMap, one accumulator         *)
(* {best, count, displayName} per nameKey, in Map insertion order.         *)
(***************************************************************************)
\* bestMap.has(nameKey) / bestMap.get(nameKey): the position of the key, 0 if absent
MapIndex(bestMap, nameKey) ==
  IF \E i \in 1..Len(bestMap) : bestMap[i].nameKey = nameKey
  THEN CHOOSE i \in 1..Len(bestMap) : bestMap[i].nameKey = nameKey
  ELSE 0

\* if (score > Number(cur.best.score || 0))
Replaces(score, cur) == JsGt(score, ScoreOf(cur.best))

KeepsFirstDisplayName(cur, entry, rawName) ==
  [nameKey |-> cur.nameKey, best |-> entry, count |-> cur.count,
   displayName |-> cur.displayName]

\* cur.best = entry; cur.displayName = rawName
TakeBest(cur, entry, rawName) ==
  [nameKey |-> cur.nameKey, best |-> entry, count |-> cur.count,
   displayName |-> rawName]

\* the body of the forEach callback, for an entry whose name does not throw
ProcessEntry(bestMap, entry) ==
  LET rawName == rawNameOf(entry)
      nameKey == nameKeyOf(rawName)
      score == ScoreOf(entry)
      i == MapIndex(bestMap, nameKey)
  IN IF i = 0
     THEN Append(bestMap, [nameKey |-> nameKey, best |-> entry, count |-> 1,
                           displayName |-> rawName])
     ELSE LET cur == [bestMap[i] EXCEPT
                        !.count = (IF @ # 0 THEN @ ELSE 0) + 1]
          IN [bestMap EXCEPT
                ![i] = IF Replaces(score, cur)
                       THEN TakeBest(cur, entry, rawName)
                       ELSE cur]

\* Object.entries(data).forEach(...): stops at the first entry that throws
RECURSIVE BuildBestMap(_, _)
BuildBestMap(data, bestMap) ==
  IF data = <<>> THEN [threw |-> FALSE, map |-> bestMap]
  ELSE IF TrimThrows(Head(data)) THEN [threw |-> TRUE, map |-> bestMap]
  ELSE BuildBestMap(Tail(data), ProcessEntry(bestMap, Head(data)))

\* one element of uniquePlayers, from one [nameKey, info] of bestMap
PlayerOf(info) ==
  LET e == info.best IN
  [name |-> IF info.displayName # <<>> THEN info.displayName ELSE info.nameKey,
   score |-> ScoreOf(e),
   id |-> Or(Or(e.id, e.key), Null),
   prize |-> Or(e.prize, Null),
   timestamp |-> Or(e.timestamp, Null),
   count |-> IF info.count # 0 THEN info.count ELSE 1]

\* Array.from(bestMap.entries()).map(...)
MappedPlayers(bestMap) == [i \in 1..Len(bestMap) |-> PlayerOf(bestMap[i])]

\* (a, b) => b.score - a.score
CompareFn(a, b) == JsSub(b.score, a.score)

\* the comparator orders a before b, or ties them
NotAfter(a, b) == CompareFn(a, b).t = "number" /\ CompareFn(a, b).n <= 0

RECURSIVE InsertStable(_, _)
InsertStable(sorted, x) ==
  IF sorted = <<>> THEN <<x>>
  ELSE IF NotAfter(Head(sorted), x)
       THEN <<Head(sorted)>> \o InsertStable(Tail(sorted), x)
       ELSE <<x>> \o sorted

RECURSIVE StableSort(_)
StableSort(list) ==
  IF list = <<>> THEN <<>>
  ELSE InsertStable(StableSort(SubSeq(list, 1, Len(list) - 1)), list[Len(list)])

Rearrangements(list) ==
  { [i \in 1..Len(list) |-> list[p[i]]] : p \in Permutations(1..Len(list)) }

\* Array.prototype.sort(comparefn): stable when the comparator is consistent;
\* with a NaN score b.score - a.score is NaN, the comparator is not
\* consistent and the order is implementation-defined.
SortOutcomes(list) ==
  IF \E i \in 1..Len(list) : list[i].score.t = "NaN"
  THEN Rearrangements(list)
  ELSE {StableSort(list)}

(***************************************************************************)
(* The database's event queue and the listeners.                           *)
(***************************************************************************)
\* first: the value raised for a new listener, not for a change of /players
Event(obs, kind, ver, data, first) ==
  [obs |-> obs, kind |-> kind, ver |-> ver, data |-> data, first |-> first]

\* one onValue registration: whether its callback throws, whether the database
\* still serves it, and the version and content of /players when it was made
\* and the version at which it was cancelled
Listener(throws, ver, data) ==
  [throws |-> throws, state |-> "attached", regVer |-> ver, regStore |-> data,
   cancelVer |-> -1]

Attached(ls) == { o \in 1..Len(ls) : ls[o].state = "attached" }

EventsReversed(ls, o, kind, ver, data) ==
  LET S == { x \in o..Len(ls) : ls[x].state = "attached" }
      nth(i) == CHOOSE x \in S : Cardinality({ y \in S : y > x }) = i - 1
  IN [i \in 1..Cardinality(S) |-> Event(nth(i), kind, ver, data, FALSE)]

\* one event per attached listener, in registration order
RECURSIVE EventsFor(_, _, _, _, _)
EventsFor(ls, o, kind, ver, data) ==
  IF o > Len(ls) THEN <<>>
  ELSE (IF ls[o].state = "attached"
        THEN <<Event(o, kind, ver, data, FALSE)>> ELSE <<>>)
       \o EventsFor(ls, o + 1, kind, ver, data)

\* one run of a handler: the event it handled, what it handed the callback
\* (kind "abort": the handler threw before it reached the callback), and whether
\* the callback threw
Run(ev, kind, proj, threw) ==
  [obs |-> ev.obs, kind |-> kind, ver |-> ev.ver, data |-> ev.data,
   first |-> ev.first, proj |-> proj, threw |-> threw]

ThrowStopsDispatch(q, threw) == IF threw THEN <<>> ELSE Tail(q)

\* callback(uniquePlayers) is the handler's last statement: an exception of the
\* callback leaves this listener's handler and no other listener's event
AfterCallback(q, threw) == Tail(q)

StaleProjection == lastRanking

\* callback([]) of the error handler
ErrorProjection == <<>>

(***************************************************************************)
(* Operations.                                                             *)
(***************************************************************************)
\* listenRanking(callback): onValue(playersRef, handler, errorHandler); the
\* database raises the current value for the new listener
listenRanking(throws) ==
  /\ Len(listeners) < MaxObservers
  /\ listeners' = Append(listeners,
                    Listener(throws, version, store))
  /\ queue' = Append(queue, Event(Len(listeners) + 1, "value", version, store, TRUE))
  /\ UNCHANGED <<store, log, lastRanking, version, keys, submitVars, comp>>

\* addPlayer(entry): push(playersRef, entry); every attached listener is
\* raised the new value of /players
addPlayer(entry) ==
  /\ version < MaxWrites
  /\ store' = Append(store, entry)
  /\ keys' = Append(keys, PushKey(version + 1))
  /\ version' = version + 1
  /\ queue' = queue \o EventsFor(listeners, 1, "value", version + 1, Append(store, entry))
  /\ UNCHANGED <<listeners, log, lastRanking, submitVars, comp>>

\* the snapshot handler given to onValue
OnSnapshot(o) ==
  /\ queue # <<>>
  /\ Head(queue).obs = o
  /\ Head(queue).kind = "value"
  /\ LET ev == Head(queue)
         built == BuildBestMap(ev.data, <<>>)
     IN IF built.threw
        THEN /\ log' = Append(log, Run(ev, "abort", <<>>, FALSE))
             /\ queue' = Tail(queue)
             /\ UNCHANGED lastRanking
        ELSE \E uniquePlayers \in SortOutcomes(MappedPlayers(built.map)) :
               /\ lastRanking' = uniquePlayers
               /\ log' = Append(log, Run(ev, "value", uniquePlayers,
                                         listeners[o].throws))
               /\ queue' = AfterCallback(queue, listeners[o].throws)
  /\ UNCHANGED <<store, listeners, version, keys, submitVars, comp>>

\* the error handler given to onValue
OnListenError(o) ==
  /\ queue # <<>>
  /\ Head(queue).obs = o
  /\ Head(queue).kind = "cancel"
  /\ log' = Append(log, Run(Head(queue), "error", ErrorProjection,
                            listeners[o].throws))
  /\ queue' = AfterCallback(queue, listeners[o].throws)
  /\ UNCHANGED <<store, listeners, lastRanking, version, keys, submitVars, comp>>

\* the database cancels the listeners of /players: each attached listener's
\* error callback is raised once and the listener is removed
SubscriptionFailure ==
  /\ Attached(listeners) # {}
  /\ listeners' = [o \in 1..Len(listeners) |->
                     IF listeners[o].state = "attached"
                     THEN [listeners[o] EXCEPT !.state = "cancelled",
                                               !.cancelVer = version]
                     ELSE listeners[o]]
  /\ queue' = queue \o EventsFor(listeners, 1, "cancel", version, <<>>)
  /\ UNCHANGED <<store, log, lastRanking, version, keys, submitVars, comp>>

(***************************************************************************)
(* The listener protocol: writes, registrations, dispatch, failure.        *)
(***************************************************************************)
WrittenEntries ==
  { Entry(Str(<<"a">>), Num(1), Undefined),
    Entry(Str(<<"b">>), Num(2), Undefined),
    Entry(Num(42), Num(3), Undefined) }

\* the cleanup script before run(apply) is called
Idle == [pc |-> "idle", apply |-> FALSE, data |-> <<>>, cleaned |-> <<>>, runs |-> 0]

PushKeys(n) == [i \in 1..n |-> PushKey(i)]

Init ==
  /\ store = <<>>
  /\ listeners = <<>>
  /\ queue = <<>>
  /\ log = <<>>
  /\ lastRanking = <<>>
  /\ version = 0
  /\ keys = <<>>
  /\ currentUser = FALSE
  /\ authReady = FALSE
  /\ calls = <<>>
  /\ appended = <<>>
  /\ comp = Idle

Next ==
  \/ \E throws \in BOOLEAN : listenRanking(throws)
  \/ \E entry \in WrittenEntries : addPlayer(entry)
  \/ \E o \in 1..Len(listeners) : OnSnapshot(o)
  \/ \E o \in 1..Len(listeners) : OnListenError(o)
  \/ SubscriptionFailure

Spec == Init /\ [][Next]_vars

(***************************************************************************)
(* Projection building: one listener attached to a /players node that      *)
(* already holds any bounded collection of raw records.                    *)
(***************************************************************************)
Names ==
  { Undefined, Str(<<>>), Str(<<" ">>), Str(<<"a">>), Str(<<"A", " ">>),
    Num(42) }

Scores == { Undefined, Num(1), Str(<<"x">>) }

Records ==
  { Entry(name, score, Undefined) : name \in Names, score \in Scores }
  \cup { Entry(Str(<<"a">>), Num(2), Num(7)),
         Entry(Str(<<"A", " ">>), Num(2), Num(8)),
         Entry(Str(<<"b">>), Str(<<"2">>), Undefined) }

BoundedSeq(S, n) == UNION { [1..k -> S] : k \in 0..n }

BuildInit ==
  /\ store \in BoundedSeq(Records, MaxData)
  /\ listeners = <<Listener(FALSE, 0, store)>>
  /\ queue = <<Event(1, "value", 0, store, TRUE)>>
  /\ log = <<>>
  /\ lastRanking = <<>>
  /\ version = 0
  /\ keys = PushKeys(Len(store))
  /\ currentUser = FALSE
  /\ authReady = FALSE
  /\ calls = <<>>
  /\ appended = <<>>
  /\ comp = Idle

BuildNext == \E o \in 1..Len(listeners) : OnSnapshot(o)

BuildSpec == BuildInit /\ [][BuildNext]_vars

(***************************************************************************)
(* Vocabulary of the properties.                                           *)
(***************************************************************************)
\* the runs in which the callback was handed the projection of a snapshot
ValueRuns == { i \in 1..Len(log) : log[i].kind = "value" }

\* the runs of the snapshot handler, whether or not it reached the callback
SnapshotRuns == { i \in 1..Len(log) : log[i].kind \in {"value", "abort"} }

\* a name the ranking can read: absent, or text
WellFormed(r) == r.name.t \in {"undefined", "string"}

\* the name as stored, the sentinel standing in for an absent or empty name
StoredName(r) ==
  IF r.name.t = "string" /\ r.name.s # <<>> THEN r.name.s ELSE Sentinel

\* identity key of a raw record: trimmed, then lower-cased
IdentityKey(r) == ToLowerCase(Trim(StoredName(r)))

\* identity key of a projection entry, from the name it displays
EntryKey(e) == ToLowerCase(Trim(e.name))

Group(data, k) == { i \in 1..Len(data) : IdentityKey(data[i]) = k }

Keys(data) == { IdentityKey(data[i]) : i \in 1..Len(data) }

EntriesOf(proj, k) == { j \in 1..Len(proj) : EntryKey(proj[j]) = k }

\* the score a record contributes according to the specification:
\* its number, 0 when missing or non-numeric
NominalScore(r) == IF ScoreOf(r).t = "number" THEN ScoreOf(r).n ELSE 0

MissingOrNonNumeric(r) ==
  r.score.t # "number" /\ ToNumber(r.score).t # "number"

\* C1: every projection handed to the callback holds exactly one entry per
\* distinct identity key of its snapshot: none missing, none twice, none extra.
C1_OneEntryPerIdentity ==
  \A i \in ValueRuns :
    /\ \A k \in Keys(log[i].data) :
         Cardinality(EntriesOf(log[i].proj, k)) = 1
    /\ \A j \in 1..Len(log[i].proj) :
         EntryKey(log[i].proj[j]) \in Keys(log[i].data)

\* a projection of three raw records, two of them one identity under two spellings
C1_Witness ==
  \E i \in ValueRuns :
    /\ Len(log[i].data) = 3
    /\ Len(log[i].proj) = 2
    /\ \E a, b \in 1..3 :
         /\ a # b
         /\ log[i].data[a].name # log[i].data[b].name
         /\ IdentityKey(log[i].data[a]) = IdentityKey(log[i].data[b])

\* C2 (as claimed): in every delivered projection each entry's score is greater
\* than or equal to the next entry's score.
C2_SortedDescending ==
  \A i \in ValueRuns :
    \A j \in 1..(Len(log[i].proj) - 1) :
      /\ log[i].proj[j].score.t = "number"
      /\ log[i].proj[j + 1].score.t = "number"
      /\ log[i].proj[j].score.n >= log[i].proj[j + 1].score.n

\* the winner the claim names: the earliest record of the identity that carries
\* the identity's maximum score
NominalWinner(data, k) ==
  CHOOSE i \in Group(data, k) :
    /\ \A j \in Group(data, k) : NominalScore(data[j]) <= NominalScore(data[i])
    /\ \A j \in Group(data, k) :
         NominalScore(data[j]) = NominalScore(data[i]) => i <= j

\* the projection entry shows record r: its trimmed name, its score, its id
Shows(e, r) ==
  /\ e.name = Trim(StoredName(r))
  /\ e.score = ScoreOf(r)
  /\ e.id = Or(r.id, Null)

\* C3 (as claimed): for every identity of a snapshot, the projection entry shows
\* the earliest record, in input order, among the identity's records of maximum
\* score.
C3_EarliestMaximumWins ==
  \A i \in ValueRuns :
    \A k \in Keys(log[i].data) :
      \A j \in EntriesOf(log[i].proj, k) :
        Shows(log[i].proj[j], log[i].data[NominalWinner(log[i].data, k)])

\* a record of the identity that no record of the identity beats under the
\* handler's comparison
Unbeaten(data, k) ==
  { i \in Group(data, k) :
      \A j \in Group(data, k) : ~JsGt(ScoreOf(data[j]), ScoreOf(data[i])) }

\* C4 (as claimed): a merged entry counts the raw records of its identity, and
\* its score and display name are the score and the name as stored of a
\* winning record.
C4_DisplaysStoredName ==
  \A i \in ValueRuns :
    \A k \in Keys(log[i].data) :
      \A j \in EntriesOf(log[i].proj, k) :
        Cardinality(Group(log[i].data, k)) >= 2 =>
          /\ log[i].proj[j].count = Cardinality(Group(log[i].data, k))
          /\ \E w \in Unbeaten(log[i].data, k) :
               /\ log[i].proj[j].score = ScoreOf(log[i].data[w])
               /\ log[i].proj[j].name = StoredName(log[i].data[w])

\* C4 (amended): a merged entry counts the raw records of its identity, and its
\* score and display name are the score and the trimmed name of one and the
\* same winning record.
C4_DisplaysTrimmedName ==
  \A i \in ValueRuns :
    \A k \in Keys(log[i].data) :
      \A j \in EntriesOf(log[i].proj, k) :
        /\ log[i].proj[j].count = Cardinality(Group(log[i].data, k))
        /\ \E w \in Unbeaten(log[i].data, k) :
             /\ log[i].proj[j].score = ScoreOf(log[i].data[w])
             /\ log[i].proj[j].name = Trim(StoredName(log[i].data[w]))

\* two spellings of one identity, the later one with the higher score and with
\* trailing whitespace: the entry displays the later one, trimmed
C4_Witness ==
  \E i \in ValueRuns :
    /\ Len(log[i].data) >= 2
    /\ log[i].data[1].name = Str(<<"a">>)
    /\ log[i].data[2].name = Str(<<"A", " ">>)
    /\ JsGt(ScoreOf(log[i].data[2]), ScoreOf(log[i].data[1]))
    /\ \E j \in 1..Len(log[i].proj) :
         /\ log[i].proj[j].name = <<"A">>
         /\ log[i].proj[j].count >= 2
         /\ log[i].proj[j].score = ScoreOf(log[i].data[2])

\* C5 (as claimed): an identity whose records all have a missing or non-numeric
\* score is shown with score exactly 0, and an identity with a record of
\* positive score is never shown with a record of missing or non-numeric score.
C5_MissingScoreCountsAsZero ==
  \A i \in ValueRuns :
    \A k \in Keys(log[i].data) :
      \A j \in EntriesOf(log[i].proj, k) :
        LET group == { log[i].data[g] : g \in Group(log[i].data, k) } IN
        /\ (\A r \in group : MissingOrNonNumeric(r))
             => log[i].proj[j].score = Num(0)
        /\ (\E r \in group : NominalScore(r) > 0)
             => /\ log[i].proj[j].score.t = "number"
                /\ log[i].proj[j].score.n > 0

\* a snapshot with a record whose name is present but not text, together with
\* well-formed records
Poisoned(data) ==
  /\ \E g \in 1..Len(data) : ~WellFormed(data[g])
  /\ \E g \in 1..Len(data) : WellFormed(data[g])

\* C6 (as claimed): on every snapshot that holds a malformed record together
\* with well-formed ones, the handler completes and hands the callback a
\* projection with an entry for every well-formed record's identity.
C6_NeverAborts ==
  \A i \in SnapshotRuns :
    Poisoned(log[i].data) =>
      /\ log[i].kind = "value"
      /\ \A g \in 1..Len(log[i].data) :
           WellFormed(log[i].data[g])
             => EntriesOf(log[i].proj, IdentityKey(log[i].data[g])) # {}

\* normalize(x), as the handler computes the key of a record named x
Normalize(x) == nameKeyOf(rawNameOf(Entry(x, Undefined, Undefined)))

\* C7 (as claimed): on every absent or textual name of a handled snapshot,
\* normalization does not throw, normalizing twice equals normalizing once, and
\* an absent or empty name normalizes to the lower-cased sentinel.
C7_NormalizeIdempotent ==
  \A i \in SnapshotRuns :
    \A g \in 1..Len(log[i].data) :
      LET x == log[i].data[g].name IN
      WellFormed(log[i].data[g]) =>
        /\ ~TrimThrows(log[i].data[g])
        /\ Normalize(Str(Normalize(x))) = Normalize(x)
        /\ (x = Undefined \/ x = Str(<<>>)) => Normalize(x) = ToLowerCase(Sentinel)

(***************************************************************************)
(* Properties of the listener protocol.                                    *)
(***************************************************************************)
Pending(o) == \E j \in 1..Len(queue) : queue[j].obs = o

\* the runs that handed observer o a projection
DeliveriesOf(o) ==
  { i \in 1..Len(log) : log[i].obs = o /\ log[i].kind \in {"value", "error"} }

\* the projections the handler can hand over for a snapshot
ProjectionsOf(data) ==
  LET built == BuildBestMap(data, <<>>) IN
  IF built.threw THEN {} ELSE SortOutcomes(MappedPlayers(built.map))

\* C8 (as claimed): once everything raised for an observer has been dispatched,
\* the observer has received a delivery, and its first delivery, unless it
\* reports a failure, is the projection of the records written before it
\* registered.
C8_FirstDeliveryReflectsWrites ==
  \A o \in 1..Len(listeners) :
    ~Pending(o) =>
      /\ DeliveriesOf(o) # {}
      /\ \A f \in DeliveriesOf(o) :
           ((\A g \in DeliveriesOf(o) : f <= g) /\ log[f].kind = "value")
             => log[f].proj \in ProjectionsOf(listeners[o].regStore)

\* C9: an error run hands its observer the empty projection and nothing else,
\* and every observer the database has cancelled has its error event raised:
\* still queued, or handled with the empty projection.
C9_FailureDeliversEmpty ==
  /\ \A i \in 1..Len(log) : log[i].kind = "error" => log[i].proj = <<>>
  /\ \A o \in 1..Len(listeners) :
       listeners[o].state = "cancelled" =>
         \/ \E j \in 1..Len(queue) : queue[j].obs = o /\ queue[j].kind = "cancel"
         \/ \E i \in 1..Len(log) :
              log[i].obs = o /\ log[i].kind = "error" /\ log[i].proj = <<>>

\* two observers, a ranking already cached, a failure: both were handed the
\* empty projection
C9_Witness ==
  /\ Len(listeners) = 2
  /\ lastRanking # <<>>
  /\ queue = <<>>
  /\ \A o \in 1..2 :
       \E i \in 1..Len(log) :
         log[i].obs = o /\ log[i].kind = "error" /\ log[i].proj = <<>>

\* observer o was attached when the change to version ver was raised
AttachedAt(o, ver) ==
  /\ listeners[o].regVer < ver
  /\ listeners[o].state = "attached" \/ listeners[o].cancelVer >= ver

\* C10: when an observer's callback throws on the projection of a change, every
\* observer registered after it and attached at that change has the same
\* change's event still queued or has been handed a projection of it.
C10_ThrowDoesNotStopFanOut ==
  \A i \in ValueRuns :
    (log[i].threw /\ ~log[i].first) =>
      \A o \in (log[i].obs + 1)..Len(listeners) :
        AttachedAt(o, log[i].ver) =>
          \/ \E j \in 1..Len(queue) :
               /\ queue[j].obs = o
               /\ queue[j].kind = "value"
               /\ ~queue[j].first
               /\ queue[j].ver = log[i].ver
          \/ \E j \in ValueRuns :
               /\ log[j].obs = o
               /\ ~log[j].first
               /\ log[j].ver = log[i].ver
               /\ log[j].data = log[i].data
               /\ log[j].proj \in ProjectionsOf(log[i].data)

\* the first observer's callback threw on a change and the second observer was
\* handed the non-empty projection of the same change afterwards
C10_Witness ==
  \E i, j \in ValueRuns :
    /\ i < j
    /\ log[i].obs = 1 /\ log[i].threw /\ ~log[i].first
    /\ log[j].obs = 2 /\ ~log[j].first
    /\ log[j].ver = log[i].ver
    /\ log[j].proj # <<>>

(***************************************************************************)
(* addPlayer in steps: ensureAuth's promise, the anonymous sign-in, the     *)
(* onAuthStateChanged listener, the continuation after await, the push.    *)
(***************************************************************************)
NoKey == [c |-> "none", n |-> 0]

\* a call of addPlayer right after ensureAuth() returned its promise:
\* awaiting it, the promise resolved at once when a user is present, otherwise
\* the auth listener subscribed and signInAnonymously under way
NewCall(entry, hasUser) ==
  [entry |-> entry, pc |-> "auth",
   settled |-> IF hasUser THEN "user" ELSE "pending",
   signIn |-> IF hasUser THEN "none" ELSE "pending",
   listening |-> ~hasUser,
   pushes |-> 0, result |-> NoKey]

ResolveAgain(call, value) ==
  [call EXCEPT !.settled = value,
               !.pc = IF call.settled # "pending" THEN "auth" ELSE @]

\* resolve(value) of ensureAuth's promise: only the first resolve settles it
Resolve(call, value) ==
  IF call.settled = "pending" THEN [call EXCEPT !.settled = value] ELSE call

SwallowSignInError(call) == call

\* signInAnonymously(auth).catch(err => resolve(null))
OnSignInError(call) == Resolve(call, "null")

\* the onAuthStateChanged callback, called with a user: unsub(); resolve(user)
OnAuthUser(call) == Resolve([call EXCEPT !.listening = FALSE], "user")

\* addPlayer(entry) up to its await: ensureAuth() runs synchronously
addPlayerCall(entry) ==
  /\ Len(calls) < MaxCalls
  /\ calls' = Append(calls, NewCall(entry, currentUser))
  /\ authReady' = (authReady \/ currentUser)
  /\ UNCHANGED <<store, listeners, queue, log, lastRanking, version, keys,
                 currentUser, appended, comp>>

\* signInAnonymously of call c succeeds: a user is signed in
SignInSucceeds(c) ==
  /\ calls[c].signIn = "pending"
  /\ currentUser' = TRUE
  /\ calls' = [calls EXCEPT ![c].signIn = "ok"]
  /\ UNCHANGED <<store, listeners, queue, log, lastRanking, version, keys,
                 authReady, appended, comp>>

\* signInAnonymously of call c is rejected
SignInFails(c) ==
  /\ calls[c].signIn = "pending"
  /\ calls' = [calls EXCEPT ![c] = OnSignInError([@ EXCEPT !.signIn = "failed"])]
  /\ UNCHANGED <<store, listeners, queue, log, lastRanking, version, keys,
                 currentUser, authReady, appended, comp>>

\* the auth listener of call c is told of the signed-in user
AuthStateChanged(c) ==
  /\ calls[c].listening
  /\ currentUser
  /\ authReady' = TRUE
  /\ calls' = [calls EXCEPT ![c] = OnAuthUser(@)]
  /\ UNCHANGED <<store, listeners, queue, log, lastRanking, version, keys,
                 currentUser, appended, comp>>

\* the continuation of await ensureAuth(): push(playersRef, entry) is issued
Resume(c) ==
  /\ calls[c].pc = "auth"
  /\ calls[c].settled # "pending"
  /\ calls' = [calls EXCEPT ![c].pc = "push", ![c].pushes = @ + 1]
  /\ UNCHANGED <<store, listeners, queue, log, lastRanking, version, keys,
                 currentUser, authReady, appended, comp>>

\* the push of call c is written: the record is a new child of /players, the
\* attached listeners are raised the new value, the call's promise fulfils
PushCompletes(c) ==
  /\ calls[c].pc = "push"
  /\ LET key == PushKey(version + 1)
         children == PutChild(Children(store, keys), Child(key, calls[c].entry))
     IN /\ store' = EntriesOfChildren(children)
        /\ keys' = KeysOfChildren(children)
        /\ queue' = queue \o EventsFor(listeners, 1, "value", version + 1,
                                       EntriesOfChildren(children))
        /\ appended' = Append(appended,
                         [key |-> key, entry |-> calls[c].entry, call |-> c])
        /\ calls' = [calls EXCEPT ![c].pc = "done", ![c].result = key]
  /\ version' = version + 1
  /\ UNCHANGED <<listeners, log, lastRanking, currentUser, authReady, comp>>

\* the push of call c is refused: the call's promise rejects
PushFails(c) ==
  /\ calls[c].pc = "push"
  /\ calls' = [calls EXCEPT ![c].pc = "failed"]
  /\ UNCHANGED <<store, listeners, queue, log, lastRanking, version, keys,
                 currentUser, authReady, appended, comp>>

SubmittedEntries ==
  { Entry(Str(<<"a">>), Num(1), Undefined),
    Entry(Str(<<"A">>), Num(2), Undefined) }

\* a page load: a user may be signed in from an earlier session
SubmitInit ==
  /\ store = <<>>
  /\ listeners = <<>>
  /\ queue = <<>>
  /\ log = <<>>
  /\ lastRanking = <<>>
  /\ version = 0
  /\ keys = <<>>
  /\ currentUser \in BOOLEAN
  /\ authReady = FALSE
  /\ calls = <<>>
  /\ appended = <<>>
  /\ comp = Idle

SubmitNext ==
  \/ \E entry \in SubmittedEntries : addPlayerCall(entry)
  \/ \E c \in 1..Len(calls) : SignInSucceeds(c)
  \/ \E c \in 1..Len(calls) : SignInFails(c)
  \/ \E c \in 1..Len(calls) : AuthStateChanged(c)
  \/ \E c \in 1..Len(calls) : Resume(c)
  \/ \E c \in 1..Len(calls) : PushCompletes(c)
  \/ \E c \in 1..Len(calls) : PushFails(c)

\* every sign-in request is answered, every auth listener is told of a user,
\* every resolved await resumes, every push is answered
SubmitFairness ==
  \A c \in 1..MaxCalls :
    /\ WF_vars(c <= Len(calls) /\ (SignInSucceeds(c) \/ SignInFails(c)))
    /\ WF_vars(c <= Len(calls) /\ AuthStateChanged(c))
    /\ WF_vars(c <= Len(calls) /\ Resume(c))
    /\ WF_vars(c <= Len(calls) /\ (PushCompletes(c) \/ PushFails(c)))

SubmitSpec == SubmitInit /\ [][SubmitNext]_vars /\ SubmitFairness

\* the authorization step of call c has settled: a user is present, or the
\* sign-in failed and the promise resolved with null
AuthSettled(c) ==
  \/ calls[c].settled = "user" /\ currentUser
  \/ calls[c].settled = "null" /\ calls[c].signIn = "failed"

\* C11: no call issues its push before its authorization step has settled, and
\* every call that got past the await has issued exactly one push, also when its
\* sign-in failed and also when a user appeared after the failure.
C11_OneAppendAfterAuth ==
  \A c \in 1..Len(calls) :
    /\ calls[c].pushes <= 1
    /\ calls[c].pushes >= 1 => AuthSettled(c)
    /\ calls[c].pc = "auth" => calls[c].pushes = 0
    /\ calls[c].pc \in {"push", "done", "failed"} => calls[c].pushes = 1

\* a call whose sign-in failed, whose auth listener was later told of a user,
\* and whose single push completed
C11_Witness ==
  \E c \in 1..Len(calls) :
    /\ calls[c].signIn = "failed"
    /\ calls[c].settled = "null"
    /\ ~calls[c].listening
    /\ currentUser
    /\ calls[c].pc = "done"
    /\ calls[c].pushes = 1

Finished(c) == c <= Len(calls) /\ calls[c].pc \in {"done", "failed"}

\* C12: every call of addPlayer eventually finishes; a call that finished with
\* success carries the key the database gave its record, and a call whose push
\* was refused finished with failure and no key.
C12_EveryCallCompletes ==
  /\ \A c \in 1..MaxCalls : (c <= Len(calls)) ~> Finished(c)
  /\ [](\A c \in 1..Len(calls) :
          /\ calls[c].pc = "done" =>
               \E i \in 1..Len(appended) :
                 /\ appended[i].call = c
                 /\ appended[i].key = calls[c].result
                 /\ appended[i].entry = calls[c].entry
          /\ calls[c].pc = "failed" =>
               /\ calls[c].result = NoKey
               /\ \A i \in 1..Len(appended) : appended[i].call # c)

\* one call finished with success after its sign-in failed, another finished
\* with failure
C12_Witness ==
  \E c, d \in 1..Len(calls) :
    /\ calls[c].pc = "done" /\ calls[c].signIn = "failed"
    /\ calls[c].result # NoKey
    /\ calls[d].pc = "failed"

(***************************************************************************)
(* The cleanup script: run(apply).                                         *)
(***************************************************************************)
\* const name = (entry.name || 'Anônimo').trim(): the Map key, as trimmed
cleanupNameOf(entry) == Trim(Or(entry.name, Str(Sentinel)).s)

\* (Number(bestMap.get(name).score) || 0)
IncumbentScore(entry) == Or(ToNumber(entry.score), Num(0))

\* { ...entry, _origKey: key }
Kept(child) == [child.entry EXCEPT !.origKey = child.key]

\* bestMap.has(name) / bestMap.get(name): the position of the name, 0 if absent
CleanupIndex(bestMap, name) ==
  IF \E i \in 1..Len(bestMap) : bestMap[i].name = name
  THEN CHOOSE i \in 1..Len(bestMap) : bestMap[i].name = name
  ELSE 0

\* the body of the forEach callback over the raw children
CleanupStep(bestMap, child) ==
  LET name == cleanupNameOf(child.entry)
      score == ScoreOf(child.entry)
      i == CleanupIndex(bestMap, name)
  IN IF i = 0
     THEN Append(bestMap, [name |-> name, entry |-> Kept(child)])
     ELSE IF JsGt(score, IncumbentScore(bestMap[i].entry))
          THEN [bestMap EXCEPT ![i].entry = Kept(child)]
          ELSE bestMap

\* Object.entries(data).forEach(...): the TypeError of .trim() ends the run
RECURSIVE CleanupBestMap(_, _)
CleanupBestMap(children, bestMap) ==
  IF children = <<>> THEN [threw |-> FALSE, map |-> bestMap]
  ELSE IF TrimThrows(Head(children).entry) THEN [threw |-> TRUE, map |-> bestMap]
  ELSE CleanupBestMap(Tail(children), CleanupStep(bestMap, Head(children)))

\* const k = entry.id || `clean_${idx}_${Date.now()}`; idx counts from 0.
\* The ids of the records are numbers: the property name is an integer key.
CleanedKey(entry, idx) ==
  IF Truthy(entry.id) THEN IntKey(entry.id.n) ELSE CleanKey(idx)

\* cleaned[k] = entry, for the values of bestMap from position idx + 1 on
RECURSIVE Cleaned(_, _, _)
Cleaned(bestMap, idx, cleaned) ==
  IF idx >= Len(bestMap) THEN cleaned
  ELSE Cleaned(bestMap, idx + 1,
               PutChild(cleaned,
                        Child(CleanedKey(bestMap[idx + 1].entry, idx),
                              bestMap[idx + 1].entry)))

AlwaysWrites(apply) == TRUE

\* if (apply) { await db.ref('players').set(cleaned) } else { preview }
WritesStore(apply) == apply

\* run(apply) up to the write: once('value'), the grouping, cleaned
CompactorRead(apply) ==
  /\ comp.pc \in {"idle", "done", "failed"}
  /\ comp.runs < MaxRuns
  /\ LET data == Children(store, keys)
         built == CleanupBestMap(data, <<>>)
     IN comp' = [pc |-> IF built.threw THEN "failed"
                        ELSE IF WritesStore(apply) THEN "write" ELSE "done",
                 apply |-> apply,
                 data |-> data,
                 cleaned |-> IF built.threw THEN <<>>
                             ELSE Cleaned(built.map, 0, <<>>),
                 runs |-> comp.runs + 1]
  /\ UNCHANGED <<store, listeners, queue, log, lastRanking, version, keys,
                 submitVars>>

\* await db.ref('players').set(cleaned): /players becomes cleaned, and the
\* attached listeners are raised the new value
CompactorWrite ==
  /\ comp.pc = "write"
  /\ store' = EntriesOfChildren(comp.cleaned)
  /\ keys' = KeysOfChildren(comp.cleaned)
  /\ version' = version + 1
  /\ queue' = queue \o EventsFor(listeners, 1, "value", version + 1,
                                 EntriesOfChildren(comp.cleaned))
  /\ comp' = [comp EXCEPT !.pc = "done"]
  /\ UNCHANGED <<listeners, log, lastRanking, submitVars>>

CompactNames == { Str(<<"a">>), Str(<<"A">>), Str(<<"b">>) }

CompactRecords ==
  { Entry(name, score, id) :
      name \in CompactNames, score \in {Num(1), Num(2)}, id \in {Undefined, Num(7)} }
  \cup { Entry(Undefined, Undefined, Undefined),
         Entry(Num(42), Num(3), Undefined),
         Entry(Str(<<"a">>), Str(<<"x">>), Undefined) }

\* /players holds pushed records when the script is first run
CompactInit ==
  /\ store \in BoundedSeq(CompactRecords, MaxRaw)
  /\ listeners = <<>>
  /\ queue = <<>>
  /\ log = <<>>
  /\ lastRanking = <<>>
  /\ version = 0
  /\ keys = PushKeys(Len(store))
  /\ currentUser = FALSE
  /\ authReady = FALSE
  /\ calls = <<>>
  /\ appended = <<>>
  /\ comp = Idle

CompactNext ==
  \/ \E apply \in BOOLEAN : CompactorRead(apply)
  \/ CompactorWrite

CompactSpec == CompactInit /\ [][CompactNext]_vars

\* the raw records the current run of the script read
RawOf(c) == EntriesOfChildren(c.data)

\* C13: when a run of the script in preview mode has ended, /players holds the
\* children, keys and records, it held when the run read it, and no write was
\* made.
C13_PreviewWritesNothing ==
  (comp.pc = "done" /\ ~comp.apply) =>
    /\ Children(store, keys) = comp.data
    /\ version = 0 \/ comp.runs > 1

\* a preview run ended on a store in which it found two records of one name
C13_Witness ==
  /\ comp.pc = "done"
  /\ ~comp.apply
  /\ comp.runs = 1
  /\ Len(comp.data) = 3
  /\ Len(comp.cleaned) = 2

\* C14 (as claimed): when a run in apply mode has ended, /players holds exactly
\* one record per identity key of the raw records it read, under distinct keys.
C14_OneRecordPerIdentity ==
  (comp.pc = "done" /\ comp.apply /\ \A i \in 1..Len(RawOf(comp)) : WellFormed(RawOf(comp)[i])) =>
    /\ Len(store) = Cardinality(Keys(RawOf(comp)))
    /\ \A k \in Keys(RawOf(comp)) : Cardinality(Group(store, k)) = 1
    /\ \A i, j \in 1..Len(keys) : i # j => keys[i] # keys[j]

\* the identity keys of a projection, each with its score
BestScores(proj) == { <<EntryKey(proj[j]), proj[j].score>> : j \in 1..Len(proj) }

\* C15 (as claimed): when a run in apply mode has ended, the projection of what
\* /players holds has the identity keys, each with the score, of the projection
\* of the raw records the run read.
C15_CompactionKeepsBestScores ==
  (comp.pc = "done" /\ comp.apply) =>
    \A p \in ProjectionsOf(RawOf(comp)) :
      \A q \in ProjectionsOf(store) : BestScores(q) = BestScores(p)

(***************************************************************************)
(* What listenRanking returns, and the cache read by getCachedRanking.     *)
(***************************************************************************)
\* listenRanking has no return statement: the function onValue returns, which
\* detaches the listener, is dropped
listenRankingResult == Undefined

\* window.getCachedRanking = () => window._lastRanking || []
getCachedRanking == lastRanking

\* C16 (as claimed): every registration of an observer yielded a handle that
\* can be invoked to remove the observer.
C16_RegistrationYieldsHandle ==
  \A o \in 1..Len(listeners) : listenRankingResult.t = "function"

\* the runs that handed a callback the projection of a change of /players
ChangeRuns == { i \in ValueRuns : ~log[i].first }

\* C17: when an observer is handed the projection of a change, every observer
\* attached at an earlier change has already been handed that earlier change's
\* projection, and the observers handed the same change before it registered
\* before it.
C17_DeliveriesOrderedByChange ==
  \A j \in ChangeRuns :
    /\ \A v \in 1..(log[j].ver - 1) :
         \A o \in 1..Len(listeners) :
           AttachedAt(o, v) =>
             \E i \in ChangeRuns :
               /\ i < j
               /\ log[i].obs = o
               /\ log[i].ver = v
               /\ log[i].proj \in ProjectionsOf(log[i].data)
    /\ \A i \in ChangeRuns :
         (i < j /\ log[i].ver = log[j].ver) => log[i].obs < log[j].obs

\* two observers were handed the first change, then the second change
C17_Witness ==
  \E j \in ChangeRuns :
    /\ log[j].ver = 2
    /\ log[j].obs = 2
    /\ AttachedAt(1, 1)
    /\ AttachedAt(2, 1)
    /\ Cardinality({ i \in ChangeRuns : i < j }) = 3

\* the last run that handed a callback a projection, 0 if none
LastDelivery ==
  IF \E i \in 1..Len(log) : log[i].kind \in {"value", "error"}
  THEN CHOOSE i \in 1..Len(log) :
         /\ log[i].kind \in {"value", "error"}
         /\ \A j \in (i + 1)..Len(log) : log[j].kind \notin {"value", "error"}
  ELSE 0

\* C18 (as claimed): after at least one delivery, getCachedRanking returns the
\* projection most recently handed to a callback, the empty projection after a
\* subscription failure.
C18_CacheIsLastDelivery ==
  LastDelivery # 0 => getCachedRanking = log[LastDelivery].proj

(***************************************************************************)
(* addPlayer calls from the pages, interleaved with one run of the cleanup *)
(* script in apply mode.                                                   *)
(***************************************************************************)
\* node scripts/cleanup_ranking.js --apply, once
RunApplyOnce ==
  /\ comp.runs = 0
  /\ CompactorRead(TRUE)

RaceNext ==
  \/ SubmitNext
  \/ RunApplyOnce
  \/ CompactorWrite

RaceSpec == SubmitInit /\ [][RaceNext]_vars

\* C19 (as claimed): once the script's set has completed, /players holds, for
\* every record a finished addPlayer call appended, a record of the same
\* identity with at least that score, whether the record was appended before
\* the script's read, between its read and its set, or after its set.
C19_NoAppendedBestScoreLost ==
  comp.pc = "done" =>
    \A i \in 1..Len(appended) :
      \E g \in 1..Len(store) :
        /\ IdentityKey(store[g]) = IdentityKey(appended[i].entry)
        /\ NominalScore(store[g]) >= NominalScore(appended[i].entry)

====
